---- MODULE Spec2Model ----
(***************************************************************************)
(* Model of CT-NeRF's ray geometry / sampling functions (src/ctnerf/rays.py)*)
(* and of the CT volume assembly (src/ctnerf/image_creation/ct_creation.py).*)
(*                                                                         *)
(* Numbers.  Tensor entries are modelled by integers, on inputs for which  *)
(* the floating-point arithmetic of the code is exact (integer t values,   *)
(* quarter-turn angles, perfect-square discriminants).  Quotients are kept *)
(* as exact fractions <<numerator, denominator>>.  A float that may be     *)
(* not-a-number is a record [nan, v].                                      *)
(*                                                                         *)
(* Tensors.  A (B, N) tensor is a sequence of B rows, each a sequence of   *)
(* N entries; index i of the code is index i+1 here.  An optional argument *)
(* is <<>> for Python's None and <<x>> (or the tensor itself) otherwise.   *)
(* A call that raises returns [ok |-> FALSE, val |-> <<>>].                *)
(***************************************************************************)
EXTENDS Integers, Sequences, FiniteSets, TLC

VARIABLES
  op,        \* the rays.py function called last ("init" before any call)
  args,      \* its arguments
  ret,       \* what it returned: [ok, val]
  pc,        \* generate_ct / run_inference: position in the code
  conf,      \* generate_ct: the InferenceConfig
  image_size,     \* generate_ct: image_size (line 30 / 37), <<>> while unbound
  voxel_spacing,  \* generate_ct: voxel_spacing (line 31 / 36), <<>> while unbound
  constants, \* ctnerf.constants: [MU_AIR, MU_WATER]
  inf,       \* run_inference: its arguments
  coords,    \* run_inference: the flat list of query points (line 85)
  output,    \* run_inference: the host buffer `output` (line 88 on)
  i,         \* run_inference: the loop index of line 90
  output_chunk,   \* run_inference: the chunk result not yet stored (line 92-93)
  queried,   \* ghost: the chunk indices queried so far, in order
  writes,    \* ghost: how many times each buffer index was assigned
  volume,    \* the tensor run_inference returned, <<>> before
  written    \* the image handed to sitk.WriteImage, <<>> before

raysVars == <<op, args, ret>>
ctVars == <<pc, conf, image_size, voxel_spacing, constants, inf, coords,
            output, i, output_chunk, queried, writes, volume, written>>
vars == <<op, args, ret, pc, conf, image_size, voxel_spacing, constants, inf,
          coords, output, i, output_chunk, queried, writes, volume, written>>

\* ------------------------------------------------------------------ bounds
MaxT == 1          \* t values and ray bounds range over 0..MaxT
MaxSamples == 2    \* samples per ray returned by a sampling strategy
MaxFine == 1       \* fine samples per ray returned by the edge-focused strategy
MaxCoord == 2      \* |a|, |b|, |v_x|, |v_y| of a direct _get_ray_bounds call
MaxPixel == 3      \* pixel positions range over -1..MaxPixel
MaxShape == 3      \* image shapes range over 2..MaxShape per axis
MaxDim == 3        \* run_inference: img_size ranges over 1..MaxDim per axis
MaxChunk == 3      \* chunk_size ranges over 1..MaxChunk
MaxMu == 2         \* MU_AIR < MU_WATER range over 0..MaxMu
MaxOrig == 2       \* generate_ct: sizes and spacings range over 1..MaxOrig

\* ------------------------------------------------------------- conventions
None == <<>>
Raise == [ok |-> FALSE, val |-> <<>>]
Return(v) == [ok |-> TRUE, val |-> v]

BatchSizes == {1, 2}
TVals == 0..MaxT

\* All sequences of length n over S.
SeqsOf(S, n) == [1..n -> S]
\* All (rows, cols) tensors over S.
Tensors(S, rows, cols) == [1..rows -> [1..cols -> S]]

IsSorted(s) == \A k \in 1..(Len(s) - 1) : s[k] <= s[k + 1]

RECURSIVE SumSeq(_)
SumSeq(s) == IF s = <<>> THEN 0 ELSE s[1] + SumSeq(Tail(s))

\* The number of indices of s that hold v.
Count(s, v) == Cardinality({k \in 1..Len(s) : s[k] = v})

\* ---------------------------------------------------------------- floats
\* A float that may be not-a-number.
F(x) == [nan |-> FALSE, v |-> x]
NaN == [nan |-> TRUE, v |-> 0]

IsSquare(n) == \E r \in 0..n : r * r = n
Isqrt(n) == CHOOSE r \in 0..n : r * r <= n /\ (r + 1) * (r + 1) > n

\* torch.sqrt: not-a-number on a negative argument.
torch_sqrt(x) == IF x < 0 THEN NaN ELSE F(Isqrt(x))

\* torch.nan_to_num(x, nan=value)
nan_to_num(x, value) == IF x.nan THEN F(value) ELSE x

\* x - y and x + y; not-a-number propagates.
FSub(x, y) == IF x.nan \/ y.nan THEN NaN ELSE F(x.v - y.v)
FAdd(x, y) == IF x.nan \/ y.nan THEN NaN ELSE F(x.v + y.v)

\* ------------------------------------------------------- rays.py: geometry
\* Angles are whole quarter turns k (k * pi / 2 radians).
cos_angles(k) == <<1, 0, -1, 0>>[(k % 4) + 1]
sin_angles(k) == <<0, 1, 0, -1>>[(k % 4) + 1]

_create_z_rotation_matrix(angles) ==
  [rotation_matrices |->
     [b \in 1..Len(angles) |->
        << <<cos_angles(angles[b]), -sin_angles(angles[b]), 0>>,
           <<sin_angles(angles[b]), cos_angles(angles[b]), 0>>,
           <<0, 0, 1>> >>],
   heading_vector |->
     [b \in 1..Len(angles) |->
        <<-cos_angles(angles[b]), -sin_angles(angles[b]), 0>>]]

\* torch.bmm of one (3, 3) matrix with one 3-vector.
MatVec(M, v) ==
  [r \in 1..3 |-> M[r][1] * v[1] + M[r][2] * v[2] + M[r][3] * v[3]]

\* The square root as line 105-106 leaves it, for one ray.
SqRootUnguarded(disc) == torch_sqrt(disc)
SqRoot(disc) == nan_to_num(torch_sqrt(disc), 0)

_get_ray_bounds(start_pos, heading_vector) ==
  [r \in 1..Len(start_pos) |->
     LET a == start_pos[r][1]
         b == start_pos[r][2]
         v_x == heading_vector[r][1]
         v_y == heading_vector[r][2]
         p_half == a * v_x + b * v_y
         q == a * a + b * b - 1
         sq_root == SqRoot(p_half * p_half - q)
         t1 == FSub(F(-p_half), sq_root)
         t2 == FAdd(F(-p_half), sq_root)
     IN <<t1, t2>>]

\* 2 * pixel / (shape - 1) - 1 is exact on these inputs.
ExactNormalized(pixel_pos, img_shape) ==
  \A b \in 1..Len(pixel_pos) : \A c \in 1..2 :
     img_shape[c] > 1 /\ (2 * pixel_pos[b][c]) % (img_shape[c] - 1) = 0

get_rays(pixel_pos, angles, img_shape) ==
  LET normalized_pos ==
        [b \in 1..Len(pixel_pos) |->
           <<1,
             (2 * pixel_pos[b][1]) \div (img_shape[1] - 1) - 1,
             (2 * pixel_pos[b][2]) \div (img_shape[2] - 1) - 1>>]
      rot == _create_z_rotation_matrix(angles)
      start_pos ==
        [b \in 1..Len(pixel_pos) |->
           MatVec(rot.rotation_matrices[b], normalized_pos[b])]
      ray_bounds == _get_ray_bounds(start_pos, rot.heading_vector)
  IN [start_pos |-> start_pos,
      heading_vector |-> rot.heading_vector,
      ray_bounds |-> ray_bounds]

\* ------------------------------------------------------- rays.py: sampling
DefaultFarBound == 2

\* Broadcasting of two batch dimensions: 0 when they are incompatible.
BroadcastRows(m, n) ==
  IF m = n THEN m ELSE IF m = 1 THEN n ELSE IF n = 1 THEN m ELSE 0
\* Row r of x, or its only row when x is broadcast.
Row(x, r) == IF Len(x) = 1 THEN x[1] ELSE x[r]

\* torch.diff of one row with the ray limit appended.
DiffAppendWrong(row, limit) ==
  [k \in 1..Len(row) |->
     IF k < Len(row) THEN row[k + 1] - row[k] ELSE limit - row[1]]
DiffAppend(row, limit) ==
  [k \in 1..Len(row) |-> (row \o <<limit>>)[k + 1] - (row \o <<limit>>)[k]]

get_sampling_distances(t_samples, ray_bounds) ==
  LET B == Len(t_samples)
      rows == IF ray_bounds # None THEN BroadcastRows(B, Len(ray_bounds)) ELSE B
      ray_limit ==
        [r \in 1..rows |->
           IF ray_bounds # None THEN 1 * Row(ray_bounds, r)[2]
           ELSE 1 * DefaultFarBound]
  IN \* torch.diff concatenates t_samples and ray_limit along dim 1: the batch
     \* dimensions must agree.
     IF rows # B THEN Raise
     ELSE Return([r \in 1..B |-> DiffAppend(t_samples[r], ray_limit[r])])

\* start_pos.unsqueeze(1) + t_samples.unsqueeze(2) * heading_vector.unsqueeze(1),
\* reshaped to (-1, 3).
SampledPoints(start_pos, heading_vector, t_samples) ==
  LET rows == BroadcastRows(Len(start_pos), Len(t_samples))
      N == Len(t_samples[1])
  IN IF rows = 0 THEN Raise
     ELSE Return(
       [k \in 1..(rows * N) |->
          LET r == ((k - 1) \div N) + 1
              n == ((k - 1) % N) + 1
          IN [c \in 1..3 |->
                Row(start_pos, r)[c]
                  + Row(t_samples, r)[n] * Row(heading_vector, r)[c]]])

\* sampling_function is the injected strategy; sampled is what it returned.
get_coarse_samples(start_pos, heading_vector, n_samples, batch_size, ray_bounds, sampled) ==
  LET t_samples == sampled
      sampling_distances == get_sampling_distances(t_samples, ray_bounds)
      sampled_points == SampledPoints(start_pos, heading_vector, t_samples)
  IN IF ~sampling_distances.ok THEN Raise
     ELSE IF ~sampled_points.ok THEN Raise
     ELSE Return([t_samples |-> t_samples,
                  sampled_points |-> sampled_points.val,
                  sampling_distances |-> sampling_distances.val])

\* torch.sort of one row, ascending.
RECURSIVE Insert(_, _)
Insert(x, s) ==
  IF s = <<>> THEN <<x>>
  ELSE IF x <= s[1] THEN <<x>> \o s
  ELSE <<s[1]>> \o Insert(x, Tail(s))
RECURSIVE InsertionSort(_)
InsertionSort(row) ==
  IF row = <<>> THEN <<>> ELSE Insert(row[1], InsertionSort(Tail(row)))
Unsorted(row) == row
SortRow(row) == InsertionSort(row)

\* torch.sort(t_samples, dim=1)[0]
SortedTs(t_samples) == [r \in 1..Len(t_samples) |-> SortRow(t_samples[r])]
\* torch.cat([x, y], dim=1)
CatRows(x, y) == [r \in 1..Len(x) |-> x[r] \o y[r]]

\* fine is what ray_sampling.edge_focused_fine_sampling returned.
get_fine_samples(start_pos, heading_vector, ray_bounds, coarse_sample_ts, fine) ==
  LET t_samples == SortedTs(CatRows(coarse_sample_ts, fine))
      sampling_distances == get_sampling_distances(t_samples, ray_bounds)
      sampled_points == SampledPoints(start_pos, heading_vector, t_samples)
  IN IF ~sampling_distances.ok THEN Raise
     ELSE IF ~sampled_points.ok THEN Raise
     ELSE Return([sampled_points |-> sampled_points.val,
                  sampling_distances |-> sampling_distances.val])

\* ------------------------------------------------------------ rays.py calls
\* The rays of a sampling call: the first B of two rays get_rays computes for
\* the centre pixel of a 3 x 3 image, at angle 0 and at a quarter turn.
SampleRays == get_rays(<< <<1, 1>>, <<1, 1>> >>, <<0, 1>>, <<3, 3>>)
StartPos(B) == SubSeq(SampleRays.start_pos, 1, B)
Heading(B) == SubSeq(SampleRays.heading_vector, 1, B)

\* Ray bounds (t1, t2) with t1 <= t2, as _get_ray_bounds returns them.
BoundPairs == {p \in TVals \X TVals : p[1] <= p[2]}
RayBounds(B) == [1..B -> BoundPairs]

\* What a coarse strategy that keeps its contract returns for ray_bounds:
\* n values per ray, ascending, within the ray's bounds.
WithinBounds(t, ray_bounds) ==
  \A r \in 1..Len(t) : \A k \in 1..Len(t[r]) :
     ray_bounds[r][1] <= t[r][k] /\ t[r][k] <= ray_bounds[r][2]
CoarseContract(t, ray_bounds) ==
  /\ Len(t) = Len(ray_bounds)
  /\ \A r \in 1..Len(t) : IsSorted(t[r])
  /\ WithinBounds(t, ray_bounds)

\* One call per behaviour: the functions of rays.py keep no state between
\* calls, so a call is made from the initial state and its result held.
RaysIdle ==
  /\ op = "init"
  /\ pc = "idle"
  /\ UNCHANGED ctVars

CallGetRays ==
  /\ RaysIdle
  /\ \E B \in BatchSizes :
     \E img_shape \in (2..MaxShape) \X (2..MaxShape) :
     \E pixel_pos \in Tensors(-1..MaxPixel, B, 2) :
     \E angles \in SeqsOf(0..3, B) :
        /\ ExactNormalized(pixel_pos, img_shape)
        /\ op' = "get_rays"
        /\ args' = [pixel_pos |-> pixel_pos, angles |-> angles,
                    img_shape |-> img_shape]
        /\ ret' = Return(get_rays(pixel_pos, angles, img_shape))

CallGetRayBounds ==
  /\ RaysIdle
  /\ \E a \in -MaxCoord..MaxCoord, b \in -MaxCoord..MaxCoord,
        v_x \in -MaxCoord..MaxCoord, v_y \in -MaxCoord..MaxCoord :
       LET disc == (a * v_x + b * v_y) * (a * v_x + b * v_y)
                     - (a * a + b * b - 1)
       IN /\ disc < 0 \/ IsSquare(disc)
          /\ op' = "_get_ray_bounds"
          /\ args' = [start_pos |-> << <<a, b, 0>> >>,
                      heading_vector |-> << <<v_x, v_y, 0>> >>]
          /\ ret' = Return(_get_ray_bounds(<< <<a, b, 0>> >>,
                                           << <<v_x, v_y, 0>> >>))

CallGetSamplingDistances ==
  /\ RaysIdle
  /\ \E B \in BatchSizes, N \in 1..MaxSamples :
     \E t_samples \in Tensors(TVals, B, N) :
     \E ray_bounds \in {None} \cup RayBounds(B) :
        /\ op' = "get_sampling_distances"
        /\ args' = [t_samples |-> t_samples, ray_bounds |-> ray_bounds]
        /\ ret' = get_sampling_distances(t_samples, ray_bounds)

\* The strategy may return any (Bs, Ns) tensor: nothing in get_coarse_samples
\* constrains it.
CallGetCoarseSamples ==
  /\ RaysIdle
  /\ \E B \in BatchSizes, n_samples \in 1..MaxSamples :
     \E ray_bounds \in {None} \cup RayBounds(B) :
     \E Bs \in BatchSizes, Ns \in 1..MaxSamples :
     \E sampled \in Tensors(TVals, Bs, Ns) :
        /\ op' = "get_coarse_samples"
        /\ args' = [start_pos |-> StartPos(B), heading_vector |-> Heading(B),
                    n_samples |-> n_samples, batch_size |-> B,
                    ray_bounds |-> ray_bounds, sampled |-> sampled]
        /\ ret' = get_coarse_samples(StartPos(B), Heading(B), n_samples, B,
                                     ray_bounds, sampled)

\* coarse_sample_ts come from a coarse pass whose strategy kept its contract;
\* the edge-focused strategy returns any n_samples values per ray.
CallGetFineSamples ==
  /\ RaysIdle
  /\ \E B \in BatchSizes, Nc \in 1..MaxSamples, n_samples \in 1..MaxFine :
     \E ray_bounds \in RayBounds(B) :
     \E coarse_sample_ts \in Tensors(TVals, B, Nc) :
     \E fine \in Tensors(TVals, B, n_samples) :
        /\ CoarseContract(coarse_sample_ts, ray_bounds)
        /\ op' = "get_fine_samples"
        /\ args' = [start_pos |-> StartPos(B), heading_vector |-> Heading(B),
                    ray_bounds |-> ray_bounds,
                    coarse_sample_ts |-> coarse_sample_ts,
                    n_samples |-> n_samples, fine |-> fine]
        /\ ret' = get_fine_samples(StartPos(B), Heading(B), ray_bounds,
                                   coarse_sample_ts, fine)

InitRays ==
  /\ op = "init" /\ args = <<>> /\ ret = Return(<<>>)
  /\ pc = "idle" /\ conf = <<>> /\ image_size = <<>> /\ voxel_spacing = <<>>
  /\ constants = <<>> /\ inf = <<>> /\ coords = <<>> /\ output = <<>> /\ i = 0
  /\ output_chunk = <<>> /\ queried = <<>> /\ writes = <<>>
  /\ volume = <<>> /\ written = <<>>

NextGeometry == CallGetRays \/ CallGetRayBounds
SpecGeometry == InitRays /\ [][NextGeometry]_vars

NextSampler ==
  CallGetSamplingDistances \/ CallGetCoarseSamples \/ CallGetFineSamples
SpecSampler == InitRays /\ [][NextSampler]_vars

\* ------------------------------------------------- ct_creation.py: helpers
Min(a, b) == IF a <= b THEN a ELSE b

\* Exact fractions <<numerator, denominator>>, denominator > 0.
FracLess(x, y) == x[1] * y[2] < y[1] * x[2]
FracEq(x, y) == x[1] * y[2] = y[1] * x[2]

\* torch.linspace(-1, 1, n): entry k is -1 + 2 * k / (n - 1); [-1] when n = 1.
linspace(n) ==
  [k \in 1..n |-> IF n = 1 THEN <<-1, 1>> ELSE <<2 * (k - 1) - (n - 1), n - 1>>]

\* torch.stack(torch.meshgrid((x, y, z), indexing="xy"), dim=-1).view(-1, 3):
\* the grids have shape (len(y), len(x), len(z)), and entry [r, c, k] is the
\* point (x[c], y[r], z[k]).
Coords(img_size) ==
  LET x == linspace(img_size[1])
      y == linspace(img_size[2])
      z == linspace(img_size[3])
  IN [n \in 1..(img_size[1] * img_size[2] * img_size[3]) |->
        LET k == (n - 1) % img_size[3]
            rc == (n - 1) \div img_size[3]
            c == rc % img_size[1]
            r == rc \div img_size[1]
        IN <<x[c + 1], y[r + 1], z[k + 1]>>]

\* The attenuation field (XRayModel): a constant field, or a ramp that takes a
\* different value at every point of a grid of up to 5 points per axis.
Model(model, point) ==
  LET L == 12
      u(coord) == ((coord[1] + coord[2]) * L) \div (2 * coord[2])
  IN IF model.kind = "const" THEN model.c
     ELSE model.c + u(point[1]) + (L + 1) * u(point[2])
            + (L + 1) * (L + 1) * u(point[3])

\* coords.split(chunk_size, dim=0): the number of chunks and chunk number i
\* (from 0).  An empty tensor splits into one empty chunk.
NumChunks(P, chunk_size) ==
  IF P = 0 THEN 1 ELSE (P + chunk_size - 1) \div chunk_size
Chunk(points, chunk_size, n) ==
  SubSeq(points, n * chunk_size + 1, Min((n + 1) * chunk_size, Len(points)))

\* The bounds of the slice output[start : stop], clipped as Python clips them.
SliceWrong(P, n, chunk_size) ==
  [lo |-> Min(n, P), hi |-> Min(n + chunk_size, P)]
Slice(P, n, chunk_size) ==
  [lo |-> Min(n * chunk_size, P), hi |-> Min((n + 1) * chunk_size, P)]

HounsfieldFloor == -1024

\* Lines 97-100 for one buffer entry.
clamp_max(x, m) == IF FracLess(<<m, 1>>, x) THEN <<m, 1>> ELSE x
clamp_min(x, m) == IF FracLess(x, <<m, 1>>) THEN <<m, 1>> ELSE x

Hounsfield(raw, attenuation_scaling_factor, c) ==
  LET mu == IF attenuation_scaling_factor # None
            THEN raw * attenuation_scaling_factor[1] ELSE raw
  IN clamp_min(<<1000 * (mu - c.MU_WATER), c.MU_WATER - c.MU_AIR>>,
               HounsfieldFloor)

\* output.reshape(d0, d1, d2)
Reshape(flat, d0, d1, d2) ==
  [a \in 1..d0 |-> [b \in 1..d1 |-> [c \in 1..d2 |->
     flat[((a - 1) * d1 + (b - 1)) * d2 + c]]]]
\* torch.permute(t, (2, 0, 1)) of a (d0, d1, d2) tensor
Permute(t, d0, d1, d2) ==
  [c \in 1..d2 |-> [a \in 1..d0 |-> [b \in 1..d1 |-> t[a][b][c]]]]

\* Line 30: (original_size / original_spacing * new_spacing).astype(int)
ImageSizeFromSpacing(original_size, original_spacing, new_spacing) ==
  [a \in 1..3 |-> (original_size[a] * new_spacing[a]) \div original_spacing[a]]
\* Line 36: original_spacing * original_size / new_size
SpacingFromImageSize(original_size, original_spacing, new_size) ==
  [a \in 1..3 |-> <<original_spacing[a] * original_size[a], new_size[a]>>]

\* --------------------------------------------- ct_creation.py: generate_ct
\* Lines 21-37.  image_size and voxel_spacing stay unbound when the
\* configuration gives neither.
DetermineSize ==
  /\ pc = "generate_ct"
  /\ LET original_size == <<conf.xray_metadata.size[1]>> \o conf.xray_metadata.size
         original_spacing ==
           <<conf.xray_metadata.spacing[1]>> \o conf.xray_metadata.spacing
     IN IF conf.voxel_spacing # None
        THEN /\ image_size' = ImageSizeFromSpacing(original_size, original_spacing,
                                                   conf.voxel_spacing)
             /\ voxel_spacing' = [a \in 1..3 |-> <<conf.voxel_spacing[a], 1>>]
        ELSE IF conf.image_size # None
        THEN /\ voxel_spacing' = SpacingFromImageSize(original_size,
                                                      original_spacing,
                                                      conf.image_size)
             /\ image_size' = conf.image_size
        ELSE UNCHANGED <<image_size, voxel_spacing>>
  /\ pc' = "sized"
  /\ UNCHANGED <<raysVars, conf, constants, inf, coords, output, i,
                 output_chunk, queried, writes, volume, written>>

\* Lines 39-45 with image_size unbound: reading it raises UnboundLocalError.
RaiseUnbound ==
  /\ pc = "sized"
  /\ image_size = <<>>
  /\ pc' = "raised"
  /\ UNCHANGED <<raysVars, conf, image_size, voxel_spacing, constants, inf,
                 coords, output, i, output_chunk, queried, writes, volume,
                 written>>

\* Lines 39-45: the call of run_inference.
CallRunInference ==
  /\ pc = "sized"
  /\ image_size # <<>>
  /\ inf' = [model |-> conf.model, img_size |-> image_size,
             chunk_size |-> conf.chunk_size,
             attenuation_scaling_factor |-> conf.attenuation_scaling_factor]
  /\ pc' = "run_inference"
  /\ UNCHANGED <<raysVars, conf, image_size, voxel_spacing, constants, coords,
                 output, i, output_chunk, queried, writes, volume, written>>

\* Lines 46-54: tensor_to_sitk and sitk.WriteImage.  The int16 conversion and
\* the image encoding are SimpleITK's and numpy's.
WriteImage ==
  /\ pc = "returned"
  /\ conf # <<>>
  /\ written' = [image_tensor |-> volume, spacing |-> voxel_spacing,
                 output_path |-> "output_path"]
  /\ pc' = "written"
  /\ UNCHANGED <<raysVars, conf, image_size, voxel_spacing, constants, inf,
                 coords, output, i, output_chunk, queried, writes, volume>>

\* -------------------------------------------- ct_creation.py: run_inference
\* What torch.empty may hold: values no field of the model takes.
Uninitialised == {-100, -200}

\* Lines 78-89: the query points and the host buffer.
GenerateCoords ==
  /\ pc = "run_inference"
  /\ coords' = Coords(inf.img_size)
  /\ \E garbage \in Uninitialised :
       output' = [j \in 1..Len(Coords(inf.img_size)) |-> garbage]
  /\ writes' = [j \in 1..Len(Coords(inf.img_size)) |-> 0]
  /\ i' = 0
  /\ queried' = <<>>
  /\ pc' = "loop"
  /\ UNCHANGED <<raysVars, conf, image_size, voxel_spacing, constants, inf,
                 output_chunk, volume, written>>

\* Lines 90-93: the field is queried on chunk i.
QueryChunk ==
  /\ pc = "loop"
  /\ i < NumChunks(Len(coords), inf.chunk_size)
  /\ LET chunk == Chunk(coords, inf.chunk_size, i)
     IN output_chunk' = [k \in 1..Len(chunk) |-> Model(inf.model, chunk[k])]
  /\ queried' = Append(queried, i)
  /\ pc' = "store"
  /\ UNCHANGED <<raysVars, conf, image_size, voxel_spacing, constants, inf,
                 coords, output, i, writes, volume, written>>

\* Line 94: output[i * chunk_size : (i + 1) * chunk_size] = output_chunk.cpu().
\* The assignment raises unless the chunk has the slice's length (or length 1).
StoreChunk ==
  /\ pc = "store"
  /\ LET sl == Slice(Len(output), i, inf.chunk_size)
         n == sl.hi - sl.lo
     IN IF Len(output_chunk) = n \/ Len(output_chunk) = 1
        THEN /\ output' = [j \in 1..Len(output) |->
                  IF sl.lo < j /\ j <= sl.hi
                  THEN (IF Len(output_chunk) = 1 THEN output_chunk[1]
                        ELSE output_chunk[j - sl.lo])
                  ELSE output[j]]
             /\ writes' = [j \in 1..Len(output) |->
                  IF sl.lo < j /\ j <= sl.hi THEN writes[j] + 1 ELSE writes[j]]
             /\ i' = i + 1
             /\ pc' = "loop"
        ELSE /\ pc' = "raised"
             /\ UNCHANGED <<output, writes, i>>
  /\ output_chunk' = <<>>
  /\ UNCHANGED <<raysVars, conf, image_size, voxel_spacing, constants, inf,
                 coords, queried, volume, written>>

\* Lines 96-107: calibration, reshape, permute and return.
ConvertAndReshape ==
  /\ pc = "loop"
  /\ i = NumChunks(Len(coords), inf.chunk_size)
  /\ LET hu == [j \in 1..Len(output) |->
                  Hounsfield(output[j], inf.attenuation_scaling_factor,
                             constants)]
         d0 == inf.img_size[1]
         d1 == inf.img_size[2]
         d2 == inf.img_size[3]
     IN /\ output' = hu
        /\ volume' = Permute(Reshape(hu, d0, d1, d2), d0, d1, d2)
  /\ pc' = "returned"
  /\ UNCHANGED <<raysVars, conf, image_size, voxel_spacing, constants, inf,
                 coords, i, output_chunk, queried, writes, written>>

\* ------------------------------------------------------ the configurations
Constants ==
  {c \in [MU_AIR : 0..MaxMu, MU_WATER : 0..MaxMu] : c.MU_AIR < c.MU_WATER}

ConstModels == {[kind |-> "const", c |-> v] : v \in -1..(MaxMu + 1)}
RampModel == [kind |-> "ramp", c |-> MaxMu]

InitInference ==
  /\ op = "init" /\ args = <<>> /\ ret = Return(<<>>)
  /\ pc = "run_inference"
  /\ conf = <<>> /\ image_size = <<>> /\ voxel_spacing = <<>>
  /\ constants \in Constants
  /\ inf \in [model : ConstModels \cup {RampModel},
              img_size : (1..MaxDim) \X (1..MaxDim) \X (1..MaxDim),
              chunk_size : 1..MaxChunk,
              attenuation_scaling_factor : {None, <<2>>}]
  /\ coords = <<>> /\ output = <<>> /\ i = 0
  /\ output_chunk = <<>> /\ queried = <<>> /\ writes = <<>>
  /\ volume = <<>> /\ written = <<>>

NextInference ==
  GenerateCoords \/ QueryChunk \/ StoreChunk \/ ConvertAndReshape
SpecInference == InitInference /\ [][NextInference]_vars

Triples(S) == S \X S \X S

InitCT ==
  /\ op = "init" /\ args = <<>> /\ ret = Return(<<>>)
  /\ pc = "generate_ct"
  /\ conf \in [xray_metadata : [size : (1..MaxOrig) \X (1..MaxOrig),
                                spacing : (1..MaxOrig) \X (1..MaxOrig)],
               voxel_spacing : {None} \cup Triples(1..MaxOrig),
               image_size : {None} \cup Triples(1..MaxOrig),
               chunk_size : 1..MaxChunk,
               attenuation_scaling_factor : {None},
               model : {RampModel}]
  /\ image_size = <<>> /\ voxel_spacing = <<>>
  /\ constants = [MU_AIR |-> 0, MU_WATER |-> MaxMu]
  /\ inf = <<>> /\ coords = <<>> /\ output = <<>> /\ i = 0
  /\ output_chunk = <<>> /\ queried = <<>> /\ writes = <<>>
  /\ volume = <<>> /\ written = <<>>

NextCT ==
  \/ DetermineSize \/ RaiseUnbound \/ CallRunInference
  \/ GenerateCoords \/ QueryChunk \/ StoreChunk \/ ConvertAndReshape
  \/ WriteImage
SpecCT == InitCT /\ [][NextCT]_vars

\* ================================================================= claims
\* ------------------------------------------------------------------- C1
\* The far bound of ray r: the ray's upper bound, or 2 without ray bounds.
FarBoundOf(ray_bounds, r) ==
  IF ray_bounds = None THEN 2 ELSE Row(ray_bounds, r)[2]

DistanceRule(t, ray_bounds, distances) ==
  /\ Len(distances) = Len(t)
  /\ \A r \in 1..Len(t) :
       LET N == Len(t[r])
       IN /\ Len(distances[r]) = N
          /\ \A k \in 1..(N - 1) : distances[r][k] = t[r][k + 1] - t[r][k]
          /\ distances[r][N] = FarBoundOf(ray_bounds, r) - t[r][N]
          /\ ray_bounds # None =>
               t[r][1] + SumSeq(distances[r]) = Row(ray_bounds, r)[2]

\* C1: get_sampling_distances returns, for every ray with t values t[0..N-1],
\* N distances with distances[i] = t[i+1] - t[i] for i < N-1 and the last one
\* far_bound - t[N-1], far_bound being the ray's upper bound or 2 when
\* ray_bounds is None; with an explicit bound B, t[0] plus the sum of the
\* distances is B.  The same holds of the distances get_coarse_samples returns.
C1_DistanceRule ==
  /\ op = "get_sampling_distances" =>
       /\ ret.ok
       /\ DistanceRule(args.t_samples, args.ray_bounds, ret.val)
  /\ (op = "get_coarse_samples" /\ ret.ok) =>
       DistanceRule(args.sampled, args.ray_bounds, ret.val.sampling_distances)

C1_Witness ==
  /\ op = "get_sampling_distances"
  /\ args.ray_bounds # None
  /\ Len(args.t_samples) = 2
  /\ args.t_samples[2] = <<0, 1>>
  /\ args.ray_bounds[2][2] = 1
  /\ ret.ok
  /\ ret.val[2] = <<1, 0>>

\* ------------------------------------------------------------------- C2
\* The t value of point k of ray r, read back from the point: the heading is
\* a unit vector, so t = (point - start) . heading.
TOfPoint(point, start, heading) ==
  (point[1] - start[1]) * heading[1] + (point[2] - start[2]) * heading[2]
    + (point[3] - start[3]) * heading[3]

\* C2: get_fine_samples computes distances and points from the per-ray t
\* sequence that is the multiset union of the coarse and the fine t values
\* (nothing dropped or duplicated), sorted ascending, whatever order the fine
\* strategy returned its values in.
C2_MergedSorted ==
  op = "get_fine_samples" =>
    /\ ret.ok
    /\ \A r \in 1..Len(args.coarse_sample_ts) :
         LET N == Len(args.coarse_sample_ts[r]) + Len(args.fine[r])
             t == [k \in 1..N |->
                     TOfPoint(ret.val.sampled_points[(r - 1) * N + k],
                              args.start_pos[r], args.heading_vector[r])]
             d == ret.val.sampling_distances[r]
         IN /\ Len(ret.val.sampled_points) = Len(args.coarse_sample_ts) * N
            /\ IsSorted(t)
            /\ \A v \in TVals :
                 Count(t, v) = Count(args.coarse_sample_ts[r], v)
                                 + Count(args.fine[r], v)
            /\ \A k \in 1..N :
                 ret.val.sampled_points[(r - 1) * N + k] =
                   [c \in 1..3 |-> args.start_pos[r][c]
                                     + t[k] * args.heading_vector[r][c]]
            /\ Len(d) = N
            /\ \A k \in 1..(N - 1) : d[k] = t[k + 1] - t[k]
            /\ d[N] = args.ray_bounds[r][2] - t[N]

C2_Witness ==
  /\ op = "get_fine_samples"
  /\ Len(args.coarse_sample_ts) = 2
  /\ args.coarse_sample_ts[2] = <<0, 1>>
  /\ args.fine[2] = <<0>>
  /\ args.ray_bounds[2] = <<0, 1>>
  /\ ret.ok
  /\ ret.val.sampling_distances[2] = <<0, 1, 0>>

\* ------------------------------------------------------------------- C7
BoundsOf(start_pos, heading_vector, ray_bounds) ==
  \A r \in 1..Len(start_pos) :
    LET p_half == start_pos[r][1] * heading_vector[r][1]
                    + start_pos[r][2] * heading_vector[r][2]
        q == start_pos[r][1] * start_pos[r][1]
               + start_pos[r][2] * start_pos[r][2] - 1
        disc == p_half * p_half - q
        t1 == ray_bounds[r][1]
        t2 == ray_bounds[r][2]
    IN /\ ~t1.nan /\ ~t2.nan
       /\ t1.v <= t2.v
       /\ disc >= 0 =>
            \E root \in 0..disc :
               /\ root * root = disc
               /\ t1.v = -p_half - root
               /\ t2.v = -p_half + root
       /\ disc < 0 => (t1.v = -p_half /\ t2.v = -p_half)

\* C7: for every ray the bounds (t1, t2) satisfy t1 <= t2, with
\* t1 = -p_half - r and t2 = -p_half + r, r the square root of the
\* discriminant p_half^2 - q when it is non-negative and 0 when it is
\* negative; no not-a-number value appears in the bounds and no error is
\* raised.
C7_RayBounds ==
  /\ op = "get_rays" =>
       /\ ret.ok
       /\ BoundsOf(ret.val.start_pos, ret.val.heading_vector,
                   ret.val.ray_bounds)
  /\ op = "_get_ray_bounds" =>
       /\ ret.ok
       /\ BoundsOf(args.start_pos, args.heading_vector, ret.val)

\* A ray of get_rays that misses the cylinder: its discriminant is negative.
C7_Witness ==
  /\ op = "get_rays"
  /\ \E r \in 1..Len(args.angles) :
       LET a == ret.val.start_pos[r][1]
           b == ret.val.start_pos[r][2]
           p_half == a * ret.val.heading_vector[r][1]
                       + b * ret.val.heading_vector[r][2]
       IN /\ p_half * p_half - (a * a + b * b - 1) < 0
          /\ ret.val.ray_bounds[r] = <<F(-p_half), F(-p_half)>>

\* ------------------------------------------------------------------- C8
WrongShape ==
  \/ Len(args.sampled) # Len(args.start_pos)
  \/ Len(args.sampled[1]) # args.n_samples

\* C8: when the strategy returns t values whose batch size differs from the
\* number of rays or whose per-ray count differs from n_samples,
\* get_coarse_samples fails; it never returns t values, points and distances
\* built from the wrongly shaped result.
C8_WrongShapeRaises ==
  (op = "get_coarse_samples" /\ WrongShape) => ~ret.ok

\* ------------------------------------------------------------------ C10
AllNonNegative(distances) ==
  \A r \in 1..Len(distances) : \A k \in 1..Len(distances[r]) :
     distances[r][k] >= 0

\* C10: every distance returned by get_coarse_samples (its strategy keeping
\* its contract) and by get_fine_samples (the edge-focused strategy returning
\* any t values of the right shape) is >= 0, the last sample's included.
C10_DistancesNonNegative ==
  /\ (/\ op = "get_coarse_samples"
      /\ args.ray_bounds # None
      /\ ~WrongShape
      /\ CoarseContract(args.sampled, args.ray_bounds)) =>
       (ret.ok /\ AllNonNegative(ret.val.sampling_distances))
  /\ op = "get_fine_samples" =>
       (ret.ok /\ AllNonNegative(ret.val.sampling_distances))

\* ------------------------------------------------------------------- C3
\* Both of {voxel_spacing, image_size} supplied, or neither.
ConfigConflict == (conf.voxel_spacing # None) = (conf.image_size # None)

\* C3: when the configuration supplies both a target voxel spacing and a
\* target voxel count, or neither, generate_ct ends in a fatal error before
\* any computation: no field query is issued, no volume is assembled and no
\* image is written.
C3_ConflictIsFatal ==
  (pc # "idle" /\ ConfigConflict) =>
    /\ pc \in {"generate_ct", "sized", "raised"}
    /\ queried = <<>>
    /\ volume = <<>>
    /\ written = <<>>

\* ------------------------------------------------------------------- C4
Abs(x) == IF x < 0 THEN -x ELSE x

\* C4: the chosen output size and spacing preserve the physical extent per
\* axis: new_size * new_spacing equals original_size * original_spacing up to
\* the rounding of new_size to an integer (less than one voxel of new
\* spacing).
C4_ExtentPreserved ==
  (pc # "idle" /\ image_size # <<>>) =>
    \A a \in 1..3 :
      LET original_size ==
            (<<conf.xray_metadata.size[1]>> \o conf.xray_metadata.size)[a]
          original_spacing ==
            (<<conf.xray_metadata.spacing[1]>> \o conf.xray_metadata.spacing)[a]
          num == voxel_spacing[a][1]
          den == voxel_spacing[a][2]
      IN Abs(image_size[a] * num - original_size * original_spacing * den) < num

\* ------------------------------------------------------------------- C5
Points == inf.img_size[1] * inf.img_size[2] * inf.img_size[3]
LoopEnded == pc = "loop" /\ i * inf.chunk_size >= Points

\* C5: the host buffer is pre-sized to P = size_x * size_y * size_z, the
\* chunks are queried one after another in ascending order, each chunk's
\* result is stored before the next chunk is queried, and when the loop ends
\* every buffer index has been written exactly once with the field's output
\* for the query point of that index; no assignment raises.
C5_ChunkedFill ==
  /\ pc # "raised"
  /\ pc \in {"loop", "store", "returned"} =>
       LET stored == Min(i * inf.chunk_size, Points)
       IN /\ Len(coords) = Points
          /\ Len(output) = Points
          /\ Len(queried) = (IF pc = "store" THEN i + 1 ELSE i)
          /\ \A n \in 1..Len(queried) : queried[n] = n - 1
          /\ \A j \in 1..Points : writes[j] = (IF j <= stored THEN 1 ELSE 0)
          /\ pc # "returned" =>
               \A j \in 1..stored : output[j] = Model(inf.model, coords[j])
          /\ pc = "store" => stored < Points
          /\ (LoopEnded \/ pc = "returned") => stored = Points

\* The loop has ended after several chunks, the last one shorter than the
\* others.
C5_Witness ==
  /\ LoopEnded
  /\ i >= 2
  /\ Points % inf.chunk_size # 0
  /\ \A j \in 1..Points :
       writes[j] = 1 /\ output[j] = Model(inf.model, coords[j])

\* ------------------------------------------------------------------- C6
\* mu of buffer index j, and its Hounsfield value before the floor.
MuOf(j) ==
  IF inf.attenuation_scaling_factor # None
  THEN Model(inf.model, coords[j]) * inf.attenuation_scaling_factor[1]
  ELSE Model(inf.model, coords[j])
RawHounsfield(j) ==
  <<1000 * (MuOf(j) - constants.MU_WATER),
    constants.MU_WATER - constants.MU_AIR>>

VolumeEntries ==
  {volume[k][a][b] : k \in 1..inf.img_size[3], a \in 1..inf.img_size[1],
                     b \in 1..inf.img_size[2]}

\* C6 as amended: every voxel equals max(-1024, 1000 * (mu - MU_WATER) /
\* (MU_WATER - MU_AIR)), mu being the raw output times the scaling factor when
\* one is supplied; no voxel is below -1024; mu = MU_WATER maps to 0;
\* mu = MU_AIR maps to -1000 (it is not clamped); the value -1024 is produced
\* exactly when the unclamped value is at or below -1024.
C6_Calibration ==
  pc = "returned" =>
    /\ \A j \in 1..Points :
         /\ ~FracLess(output[j], <<-1024, 1>>)
         /\ ~FracLess(RawHounsfield(j), <<-1024, 1>>) =>
              FracEq(output[j], RawHounsfield(j))
         /\ FracLess(RawHounsfield(j), <<-1024, 1>>) =>
              FracEq(output[j], <<-1024, 1>>)
         /\ MuOf(j) = constants.MU_WATER => FracEq(output[j], <<0, 1>>)
         /\ MuOf(j) = constants.MU_AIR => FracEq(output[j], <<-1000, 1>>)
         /\ FracEq(output[j], <<-1024, 1>>) <=>
              ~FracLess(<<-1024, 1>>, RawHounsfield(j))
    /\ VolumeEntries = {output[j] : j \in 1..Points}

\* A scaled output equal to MU_AIR, which maps to -1000.
C6_Witness ==
  /\ pc = "returned"
  /\ inf.attenuation_scaling_factor # None
  /\ MuOf(1) = constants.MU_AIR
  /\ FracEq(output[1], <<-1000, 1>>)
  /\ FracEq(volume[1][1][1], <<-1000, 1>>)

\* C6 as stated: in addition, an input at or below MU_AIR maps to the clamped
\* value -1024.
C6_AirIsClamped ==
  pc = "returned" =>
    \A j \in 1..Points :
      /\ ~FracLess(output[j], <<-1024, 1>>)
      /\ MuOf(j) = constants.MU_WATER => FracEq(output[j], <<0, 1>>)
      /\ MuOf(j) <= constants.MU_AIR => FracEq(output[j], <<-1024, 1>>)

\* ------------------------------------------------------------------- C9
\* C9: the returned volume has shape (size_z, size_x, size_y) and its entry
\* [k, i, j] is the calibrated field value at the grid point whose x
\* coordinate is the i-th of size_x values, y the j-th of size_y values and z
\* the k-th of size_z values evenly spaced over [-1, 1].
C9_VoxelOfGridPoint ==
  pc = "returned" =>
    /\ Len(volume) = inf.img_size[3]
    /\ \A k \in 1..inf.img_size[3] :
         /\ Len(volume[k]) = inf.img_size[1]
         /\ \A a \in 1..inf.img_size[1] :
              /\ Len(volume[k][a]) = inf.img_size[2]
              /\ \A b \in 1..inf.img_size[2] :
                   volume[k][a][b] =
                     Hounsfield(
                       Model(inf.model,
                             <<linspace(inf.img_size[1])[a],
                               linspace(inf.img_size[2])[b],
                               linspace(inf.img_size[3])[k]>>),
                       inf.attenuation_scaling_factor, constants)

\* ------------------------------------------------- what the code does there
\* C8: the distances of a strategy result with the wrong per-ray count, or
\* with more rows than the single ray of the call, are returned.
C8_WrongShapeReturned ==
  (op = "get_coarse_samples" /\ Len(args.sampled[1]) # args.n_samples) =>
     ret.ok = (\/ Len(args.sampled) = Len(args.start_pos)
               \/ Len(args.start_pos) = 1
               \/ (Len(args.sampled) = 1 /\ args.ray_bounds = None))

\* C10: the coarse half holds; a fine t value beyond the far bound gives the
\* last sample a negative distance.
C10_CoarseNonNegative ==
  (/\ op = "get_coarse_samples"
   /\ args.ray_bounds # None
   /\ ~WrongShape
   /\ CoarseContract(args.sampled, args.ray_bounds)) =>
     (ret.ok /\ AllNonNegative(ret.val.sampling_distances))
C10_FineBeyondFarBound ==
  op = "get_fine_samples" =>
    \A r \in 1..Len(args.fine) :
      (\E k \in 1..Len(args.fine[r]) : args.fine[r][k] > args.ray_bounds[r][2])
        <=> (\E k \in 1..Len(ret.val.sampling_distances[r]) :
               ret.val.sampling_distances[r][k] < 0)

\* C9: entry [k, a, b] of the volume is the value of the query point at flat
\* index (a * size_y + b) * size_z + k of the meshgrid.  With
\* size_x = size_y that is the grid point (x[b], y[a], z[k]): the array axes
\* are (z, y, x).
C9_VoxelOfFlatIndex ==
  pc = "returned" =>
    \A k \in 1..inf.img_size[3] : \A a \in 1..inf.img_size[1] :
    \A b \in 1..inf.img_size[2] :
       LET m == (a - 1) * inf.img_size[2] + (b - 1)
           point == <<linspace(inf.img_size[1])[(m % inf.img_size[1]) + 1],
                      linspace(inf.img_size[2])[(m \div inf.img_size[1]) + 1],
                      linspace(inf.img_size[3])[k]>>
       IN /\ volume[k][a][b] =
               Hounsfield(Model(inf.model, point),
                          inf.attenuation_scaling_factor, constants)
          /\ inf.img_size[1] = inf.img_size[2] =>
               point = <<linspace(inf.img_size[1])[b],
                         linspace(inf.img_size[2])[a],
                         linspace(inf.img_size[3])[k]>>

\* C4: the image_size branch (line 36) preserves the extent exactly; the
\* voxel_spacing branch (line 30) gives size * new_spacing / original_spacing.
C4_SizingAsCoded ==
  (pc # "idle" /\ image_size # <<>>) =>
    \A a \in 1..3 :
      LET original_size ==
            (<<conf.xray_metadata.size[1]>> \o conf.xray_metadata.size)[a]
          original_spacing ==
            (<<conf.xray_metadata.spacing[1]>> \o conf.xray_metadata.spacing)[a]
      IN IF conf.voxel_spacing # None
         THEN /\ image_size[a] * original_spacing
                   <= original_size * conf.voxel_spacing[a]
              /\ original_size * conf.voxel_spacing[a]
                   < (image_size[a] + 1) * original_spacing
         ELSE image_size[a] * voxel_spacing[a][1]
                = original_size * original_spacing * voxel_spacing[a][2]

\* C3: with neither supplied the run raises before run_inference is called;
\* with both supplied it proceeds with the voxel spacing.
C3_AsCoded ==
  (pc \notin {"idle", "generate_ct", "sized"}) =>
    IF conf.voxel_spacing = None /\ conf.image_size = None
    THEN pc = "raised" /\ queried = <<>> /\ written = <<>>
    ELSE pc # "raised"
           /\ (conf.voxel_spacing # None =>
                 voxel_spacing = [a \in 1..3 |-> <<conf.voxel_spacing[a], 1>>])

====
